---------------------------- MODULE Spec2Model ----------------------------
(***************************************************************************)
(* Model of the chat-session state of the PDF chat application             *)
(* (AppContent in App.jsx, ChatWindow in components/ChatWindow.jsx).       *)
(*                                                                         *)
(* React state is modelled with two copies of the session list:            *)
(*   chats    - the value of the `chats` state hook with every queued      *)
(*              update applied (what a functional updater receives);       *)
(*   rendered - the `chats` binding captured by the closures of the last   *)
(*              render (what createNewChat / handleSendMessage read).      *)
(* An event handler runs in a discrete event and is re-rendered at once;   *)
(* the updates queued by the continuation of an awaited call are rendered  *)
(* by a later task (action Render), so a handler can run in between.       *)
(* Strings that the code slices, trims or concatenates are sequences of    *)
(* one-character strings.                                                  *)
(* storage is the 'chatHistory' entry of localStorage: the effect on       *)
(* [chats] writes it at every commit of a changed list.  The entry lives   *)
(* outside the application, so at a page load it can also be missing or    *)
(* hold text this application did not write.                               *)
(* settled is a history variable: the calls that succeeded since the       *)
(* application was mounted, in the order in which they were settled, with  *)
(* the ids of the messages they made.                                      *)
(***************************************************************************)
EXTENDS Integers, Sequences, FiniteSets, TLC

VARIABLES chats, rendered, activeChat, isLoading, calls, toast,
          uuidCount, callCount, now, nOps, lastOp, storage, crashed, settled

vars == <<chats, rendered, activeChat, isLoading, calls, toast,
          uuidCount, callCount, now, nOps, lastOp, storage, crashed, settled>>

---------------------------------------------------------------------------
(* Bounds of the model *)

MaxOps == 3

---------------------------------------------------------------------------
(* Values *)

Null == 0

Absent == "undefined"

TitleLen == 30

NewChatTitle == <<"N", "e", "w", " ", "C", "h", "a", "t">>

Ellipsis == <<".", ".", ".">>

PdfTitlePrefix == <<"P", "D", "F", ":", " ">>

UploadedPrefix ==
    <<"U", "p", "l", "o", "a", "d", "e", "d", " ", "a", "n", "d", " ",
      "p", "r", "o", "c", "e", "s", "s", "e", "d", " ", "P", "D", "F", ":", " ">>

ShortMsg == <<"h", "i">>

LongMsg ==
    <<"W", "h", "a", "t", " ", "i", "s", " ", "t", "h", "i", "s", " ",
      "d", "o", "c", "u", "m", "e", "n", "t", " ", "a", "b", "o", "u", "t",
      " ", "n", "o", "w", "?">>

BlankMsg == <<" ", " ">>

Messages == {<<>>, BlankMsg, ShortMsg, LongMsg}

Answers == {<<"o", "k">>}

Files == {[name |-> <<"a">>], [name |-> <<"b">>]}

NoFile == [name |-> <<>>]

Payloads == {"chunks3"}

ErrorMessages == {"", "Network Error"}

Whitespace == {" ", "\t", "\n"}

---------------------------------------------------------------------------
(* String helpers *)

Min(a, b) == IF a < b THEN a ELSE b

RECURSIVE TrimStart(_)
TrimStart(s) ==
    IF s # <<>> /\ Head(s) \in Whitespace THEN TrimStart(Tail(s)) ELSE s

RECURSIVE TrimEnd(_)
TrimEnd(s) ==
    IF s # <<>> /\ s[Len(s)] \in Whitespace
    THEN TrimEnd(SubSeq(s, 1, Len(s) - 1))
    ELSE s

Trim(s) == TrimEnd(TrimStart(s))

Slice(s, n) == SubSeq(s, 1, Min(Len(s), n))

---------------------------------------------------------------------------
(* Session list helpers *)

ChatIds(cs) == {cs[i].id : i \in 1..Len(cs)}

Has(cs, id) == \E i \in 1..Len(cs) : cs[i].id = id

Find(cs, id) ==
    cs[CHOOSE i \in 1..Len(cs) :
            cs[i].id = id /\ \A j \in 1..(i - 1) : cs[j].id # id]

RECURSIVE Filter(_, _)
Filter(cs, id) ==
    IF cs = <<>> THEN <<>>
    ELSE IF Head(cs).id # id THEN <<Head(cs)>> \o Filter(Tail(cs), id)
    ELSE Filter(Tail(cs), id)

NewChat(id, t) ==
    [id |-> id, title |-> NewChatTitle, messages |-> <<>>,
     createdAt |-> t, pdfData |-> Absent]

WithNewChat(cs, newChat) == <<newChat>> \o cs

MakeMessage(id, content, sender, t) ==
    [id |-> id, content |-> content, sender |-> sender, timestamp |-> t]

WithUserMessage(cs, active, userMessage) ==
    [i \in 1..Len(cs) |->
        IF cs[i].id = active
        THEN [cs[i] EXCEPT !.messages = Append(@, userMessage)]
        ELSE cs[i]]

(* Variant: the history is read before the user message is appended. *)
QueryHistoryBeforeAppend(updatedChats, active) ==
    IF ~Has(updatedChats, active) THEN <<>>
    ELSE SubSeq(Find(updatedChats, active).messages, 1,
                Len(Find(updatedChats, active).messages) - 1)

QueryHistory(updatedChats, active) ==
    IF ~Has(updatedChats, active) THEN <<>>
    ELSE Find(updatedChats, active).messages

QueryContext(updatedChats, active) ==
    IF ~Has(updatedChats, active) THEN Absent
    ELSE Find(updatedChats, active).pdfData

AnswerTitle(chat, message) ==
    IF Len(chat.messages) = 0 THEN Slice(message, TitleLen) \o Ellipsis
    ELSE chat.title

(* Variant: a missing session is created again for the reply. *)
WithAiMessageUpsert(cs, active, aiMessage, message) ==
    IF Has(cs, active)
    THEN [i \in 1..Len(cs) |->
            IF cs[i].id = active
            THEN [cs[i] EXCEPT !.messages = Append(cs[i].messages, aiMessage),
                               !.title = AnswerTitle(cs[i], message)]
            ELSE cs[i]]
    ELSE <<[id |-> active, title |-> Slice(message, TitleLen) \o Ellipsis,
            messages |-> <<aiMessage>>, createdAt |-> aiMessage.timestamp,
            pdfData |-> Absent]>> \o cs

WithAiMessage(cs, active, aiMessage, message) ==
    [i \in 1..Len(cs) |->
        IF cs[i].id = active
        THEN [cs[i] EXCEPT !.messages = Append(cs[i].messages, aiMessage),
                           !.title = AnswerTitle(cs[i], message)]
        ELSE cs[i]]

UploadContent(file) == UploadedPrefix \o file.name

UploadTitle(file) == PdfTitlePrefix \o file.name

(* Variant: the upload leaves the title alone. *)
WithDocumentKeepsTitle(cs, active, result, file, id, t) ==
    [i \in 1..Len(cs) |->
        IF cs[i].id = active
        THEN [cs[i] EXCEPT
                !.pdfData = result,
                !.messages =
                    Append(@, MakeMessage(id, UploadContent(file), "system", t))]
        ELSE cs[i]]

WithDocument(cs, active, result, file, id, t) ==
    [i \in 1..Len(cs) |->
        IF cs[i].id = active
        THEN [cs[i] EXCEPT
                !.pdfData = result,
                !.title = UploadTitle(file),
                !.messages =
                    Append(@, MakeMessage(id, UploadContent(file), "system", t))]
        ELSE cs[i]]

---------------------------------------------------------------------------
(* The persisted entry.  A session is serialised as its key/value pairs in *)
(* key order; JSON.stringify leaves out a key whose value is undefined,    *)
(* and reading a key that is not there gives undefined.                    *)

NoEntry == [kind |-> "none", value |-> <<>>]

Garbage == [kind |-> "garbage", value |-> <<>>]

JsonSession(chat) ==
    <<<<"id", chat.id>>, <<"title", chat.title>>,
      <<"messages", chat.messages>>, <<"createdAt", chat.createdAt>>>>
    \o (IF chat.pdfData = Absent THEN <<>> ELSE <<<<"pdfData", chat.pdfData>>>>)

Stringify(cs) ==
    [kind |-> "json", value |-> [i \in 1..Len(cs) |-> JsonSession(cs[i])]]

HasKey(entries, k) == \E i \in 1..Len(entries) : entries[i][1] = k

GetKey(entries, k) ==
    entries[CHOOSE i \in 1..Len(entries) : entries[i][1] = k][2]

ParseSession(entries) ==
    [id |-> GetKey(entries, "id"), title |-> GetKey(entries, "title"),
     messages |-> GetKey(entries, "messages"),
     createdAt |-> GetKey(entries, "createdAt"),
     pdfData |-> IF HasKey(entries, "pdfData")
                 THEN GetKey(entries, "pdfData") ELSE Absent]

Parse(entry) == [i \in 1..Len(entry.value) |-> ParseSession(entry.value[i])]

ParseThrows(entry) == entry.kind = "garbage"

SavedChats(entry) == IF entry.kind = "none" THEN <<>> ELSE Parse(entry)

---------------------------------------------------------------------------
(* Notifications *)

NoToast == [title |-> "none", description |-> "", status |-> "none"]

DeletedToast == [title |-> "Chat deleted", description |-> "", status |-> "info"]

ProcessedToast ==
    [title |-> "PDF Processed",
     description |->
        "The PDF has been successfully processed and is ready for querying.",
     status |-> "success"]

UploadErrorToast(msg) ==
    [title |-> "Error",
     description |-> IF msg = "" THEN "Failed to process PDF" ELSE msg,
     status |-> "error"]

QueryErrorToast(msg) ==
    [title |-> "Error getting response", description |-> msg, status |-> "error"]

---------------------------------------------------------------------------
(* Initial state: AppContent mounted with no persisted sessions *)

Init ==
    /\ chats = <<>>
    /\ rendered = <<>>
    /\ activeChat = Null
    /\ isLoading = FALSE
    /\ calls = {}
    /\ toast = NoToast
    /\ uuidCount = 0
    /\ callCount = 0
    /\ now = 0
    /\ nOps = 0
    /\ lastOp = [op |-> "init", arg |-> 0]
    /\ storage = Stringify(<<>>)
    /\ crashed = FALSE
    /\ settled = <<>>

---------------------------------------------------------------------------
(* Event handlers *)

createNewChat ==
    /\ nOps < MaxOps
    /\ LET newChat == NewChat(uuidCount + 1, now)
       IN /\ chats' = WithNewChat(rendered, newChat)
          /\ rendered' = WithNewChat(rendered, newChat)
          /\ activeChat' = newChat.id
          /\ lastOp' = [op |-> "create", arg |-> newChat.id]
    /\ uuidCount' = uuidCount + 1
    /\ now' = now + 1
    /\ nOps' = nOps + 1
    /\ storage' = Stringify(rendered')
    /\ UNCHANGED <<isLoading, calls, toast, callCount, crashed, settled>>

(* Variant: the active id is never cleared by a delete. *)
DeleteActiveKeepsId(active, id) == active

(* Variant: every delete clears the active id. *)
DeleteActiveAlwaysClears(active, id) == Null

DeleteActive(active, id) == IF active = id THEN Null ELSE active

handleDeleteChat(id) ==
    /\ chats' = Filter(chats, id)
    /\ rendered' = Filter(rendered, id)
    /\ activeChat' = DeleteActive(activeChat, id)
    /\ toast' = DeletedToast
    /\ lastOp' = [op |-> "delete", arg |-> id]
    /\ storage' = Stringify(rendered')
    /\ UNCHANGED <<isLoading, calls, uuidCount, callCount, now, nOps, crashed, settled>>

setActiveChat(id) ==
    /\ activeChat' = id
    /\ lastOp' = [op |-> "select", arg |-> id]
    /\ UNCHANGED <<chats, rendered, isLoading, calls, toast, uuidCount,
                   callCount, now, nOps, storage, crashed, settled>>

QueryCall(n, active, message, updatedChats) ==
    [n |-> n, kind |-> "queryLLM", activeChat |-> active, message |-> message,
     chatHistory |-> QueryHistory(updatedChats, active),
     context |-> QueryContext(updatedChats, active),
     file |-> NoFile]

(* Variant: the message is not trimmed before the test. *)
SendGuardNoTrim(message, active) == message # <<>> /\ active # Null

SendGuard(message, active) == Trim(message) # <<>> /\ active # Null

handleSendMessage(message) ==
    /\ IF SendGuard(message, activeChat)
       THEN nOps < MaxOps /\
            LET userMessage == MakeMessage(uuidCount + 1, message, "user", now)
                updatedChats == WithUserMessage(rendered, activeChat, userMessage)
            IN /\ chats' = updatedChats
               /\ rendered' = updatedChats
               /\ isLoading' = TRUE
               /\ calls' = calls \cup
                    {QueryCall(callCount + 1, activeChat, message, updatedChats)}
               /\ callCount' = callCount + 1
               /\ uuidCount' = uuidCount + 1
               /\ now' = now + 1
               /\ nOps' = nOps + 1
               /\ lastOp' = [op |-> "send", arg |-> callCount + 1]
               /\ storage' = Stringify(rendered')
       ELSE /\ lastOp' = [op |-> "sendIgnored", arg |-> 0]
            /\ UNCHANGED <<chats, rendered, isLoading, calls, callCount,
                           uuidCount, now, nOps, storage>>
    /\ UNCHANGED <<activeChat, toast, crashed, settled>>

UploadCall(n, active, file) ==
    [n |-> n, kind |-> "processPDF", activeChat |-> active, message |-> <<>>,
     chatHistory |-> <<>>, context |-> Absent, file |-> file]

handleFileUpload(file) ==
    /\ IF activeChat # Null
       THEN /\ nOps < MaxOps
            /\ nOps' = nOps + 1
            /\ isLoading' = TRUE
            /\ calls' = calls \cup {UploadCall(callCount + 1, activeChat, file)}
            /\ callCount' = callCount + 1
            /\ lastOp' = [op |-> "upload", arg |-> callCount + 1]
       ELSE /\ lastOp' = [op |-> "uploadIgnored", arg |-> 0]
            /\ UNCHANGED <<isLoading, calls, callCount, nOps>>
    /\ UNCHANGED <<chats, rendered, activeChat, toast, uuidCount, now,
                   storage, crashed, settled>>

---------------------------------------------------------------------------
(* Continuations of the awaited calls *)

(* Variant: the reply goes to the session that is active on resolution. *)
QueryResolvedToActive(c, answer) ==
    /\ c.kind = "queryLLM"
    /\ chats' = WithAiMessage(chats, activeChat,
                    MakeMessage(uuidCount + 1, answer, "ai", now), c.message)
    /\ uuidCount' = uuidCount + 1
    /\ isLoading' = FALSE
    /\ calls' = calls \ {c}
    /\ now' = now + 1
    /\ lastOp' = [op |-> "sendOk", arg |-> c.n]
    /\ settled' = Append(settled,
            [kind |-> c.kind, target |-> c.activeChat,
             askId |-> c.chatHistory[Len(c.chatHistory)].id,
             id |-> uuidCount + 1, title |-> <<>>, pdfData |-> Absent])
    /\ UNCHANGED <<rendered, activeChat, toast, callCount, nOps,
                   storage, crashed>>

QueryResolved(c, answer) ==
    /\ c.kind = "queryLLM"
    /\ chats' = WithAiMessage(chats, c.activeChat,
                    MakeMessage(uuidCount + 1, answer, "ai", now), c.message)
    /\ uuidCount' = uuidCount + 1
    /\ isLoading' = FALSE
    /\ calls' = calls \ {c}
    /\ now' = now + 1
    /\ lastOp' = [op |-> "sendOk", arg |-> c.n]
    /\ settled' = Append(settled,
            [kind |-> c.kind, target |-> c.activeChat,
             askId |-> c.chatHistory[Len(c.chatHistory)].id,
             id |-> uuidCount + 1, title |-> <<>>, pdfData |-> Absent])
    /\ UNCHANGED <<rendered, activeChat, toast, callCount, nOps,
                   storage, crashed>>

(* Variant: the failure path does not reset isLoading (no finally). *)
QueryRejectedKeepsLoading(c, msg) ==
    /\ c.kind = "queryLLM"
    /\ toast' = QueryErrorToast(msg)
    /\ calls' = calls \ {c}
    /\ lastOp' = [op |-> "sendFail", arg |-> c.n]
    /\ UNCHANGED <<chats, rendered, activeChat, isLoading, uuidCount, callCount,
                   now, nOps, storage, crashed, settled>>

(* Variant: the catch branch also appends an ai message. *)
QueryRejectedWithReply(c, msg) ==
    /\ c.kind = "queryLLM"
    /\ chats' = WithAiMessage(chats, c.activeChat,
                    MakeMessage(uuidCount + 1, <<"e", "r", "r">>, "ai", now),
                    c.message)
    /\ uuidCount' = uuidCount + 1
    /\ now' = now + 1
    /\ toast' = QueryErrorToast(msg)
    /\ isLoading' = FALSE
    /\ calls' = calls \ {c}
    /\ lastOp' = [op |-> "sendFail", arg |-> c.n]
    /\ UNCHANGED <<rendered, activeChat, callCount, nOps, storage, crashed, settled>>

QueryRejected(c, msg) ==
    /\ c.kind = "queryLLM"
    /\ toast' = QueryErrorToast(msg)
    /\ isLoading' = FALSE
    /\ calls' = calls \ {c}
    /\ lastOp' = [op |-> "sendFail", arg |-> c.n]
    /\ UNCHANGED <<chats, rendered, activeChat, uuidCount, callCount, now, nOps,
                   storage, crashed, settled>>

UploadResolved(c, result) ==
    /\ c.kind = "processPDF"
    /\ chats' = WithDocument(chats, c.activeChat, result, c.file,
                             uuidCount + 1, now)
    /\ uuidCount' = uuidCount + 1
    /\ toast' = ProcessedToast
    /\ isLoading' = FALSE
    /\ calls' = calls \ {c}
    /\ now' = now + 1
    /\ lastOp' = [op |-> "uploadOk", arg |-> c.n]
    /\ settled' = Append(settled,
            [kind |-> c.kind, target |-> c.activeChat, askId |-> 0,
             id |-> uuidCount + 1, title |-> UploadTitle(c.file),
             pdfData |-> result])
    /\ UNCHANGED <<rendered, activeChat, callCount, nOps, storage, crashed>>

(* Variant: the catch branch attaches an undefined payload. *)
UploadRejectedAttaches(c, msg) ==
    /\ c.kind = "processPDF"
    /\ chats' = WithDocument(chats, c.activeChat, Absent, c.file,
                             uuidCount + 1, now)
    /\ uuidCount' = uuidCount + 1
    /\ now' = now + 1
    /\ toast' = UploadErrorToast(msg)
    /\ isLoading' = FALSE
    /\ calls' = calls \ {c}
    /\ lastOp' = [op |-> "uploadFail", arg |-> c.n]
    /\ UNCHANGED <<rendered, activeChat, callCount, nOps, storage, crashed, settled>>

UploadRejected(c, msg) ==
    /\ c.kind = "processPDF"
    /\ toast' = UploadErrorToast(msg)
    /\ isLoading' = FALSE
    /\ calls' = calls \ {c}
    /\ lastOp' = [op |-> "uploadFail", arg |-> c.n]
    /\ UNCHANGED <<chats, rendered, activeChat, uuidCount, callCount, now, nOps,
                   storage, crashed, settled>>

---------------------------------------------------------------------------
(* Re-render after queued continuation updates *)

Render ==
    /\ rendered # chats
    /\ rendered' = chats
    /\ storage' = Stringify(chats)
    /\ UNCHANGED <<chats, activeChat, isLoading, calls, toast, uuidCount,
                   callCount, now, nOps, lastOp, crashed, settled>>

---------------------------------------------------------------------------
(* Page load: AppContent mounts on the entry the store holds.  The entry   *)
(* is the one this application wrote, or is missing, or is not JSON; the   *)
(* calls of the page before are gone.  JSON.parse runs inside the useState *)
(* initialiser with no handler around it: when it throws, the mount fails. *)

StartupEntries == {storage, NoEntry, Garbage}

StartupArg(entry) ==
    IF entry.kind = "none" THEN 1 ELSE IF entry.kind = "garbage" THEN 2 ELSE 0

Startup(entry) ==
    /\ IF ParseThrows(entry)
       THEN /\ crashed' = TRUE
            /\ chats' = <<>>
            /\ rendered' = <<>>
            /\ storage' = entry
       ELSE /\ crashed' = FALSE
            /\ chats' = SavedChats(entry)
            /\ rendered' = SavedChats(entry)
            /\ storage' = Stringify(rendered')
    /\ activeChat' = Null
    /\ isLoading' = FALSE
    /\ calls' = {}
    /\ toast' = NoToast
    /\ lastOp' = [op |-> "startup", arg |-> StartupArg(entry)]
    /\ settled' = <<>>
    /\ UNCHANGED <<uuidCount, callCount, now, nOps>>

---------------------------------------------------------------------------

Next ==
    \/ ~crashed /\ createNewChat
    \/ ~crashed /\ \E id \in 1..uuidCount : handleDeleteChat(id)
    \/ ~crashed /\ \E id \in ChatIds(rendered) : setActiveChat(id)
    \/ ~crashed /\ \E message \in Messages : handleSendMessage(message)
    \/ ~crashed /\ \E file \in Files : handleFileUpload(file)
    \/ ~crashed /\ \E c \in calls, answer \in Answers : QueryResolved(c, answer)
    \/ ~crashed /\ \E c \in calls, msg \in ErrorMessages : QueryRejected(c, msg)
    \/ ~crashed /\ \E c \in calls, result \in Payloads : UploadResolved(c, result)
    \/ ~crashed /\ \E c \in calls, msg \in ErrorMessages : UploadRejected(c, msg)
    \/ ~crashed /\ Render
    \/ \E entry \in StartupEntries : Startup(entry)

Spec == Init /\ [][Next]_vars

(* Every call in flight is eventually settled, one way or the other. *)
Settle ==
    /\ ~crashed
    /\ \E c \in calls :
          \/ \E answer \in Answers : QueryResolved(c, answer)
          \/ \E msg \in ErrorMessages : QueryRejected(c, msg)
          \/ \E result \in Payloads : UploadResolved(c, result)
          \/ \E msg \in ErrorMessages : UploadRejected(c, msg)

FairSpec == Spec /\ WF_vars(Settle)

(* The application loaded on an entry that already holds one session. *)
SavedSession == NewChat(1, 0)

InitSaved ==
    /\ chats = SavedChats(Stringify(<<SavedSession>>))
    /\ rendered = chats
    /\ activeChat = Null
    /\ isLoading = FALSE
    /\ calls = {}
    /\ toast = NoToast
    /\ uuidCount = 1
    /\ callCount = 0
    /\ now = 1
    /\ nOps = 0
    /\ lastOp = [op |-> "init", arg |-> 0]
    /\ storage = Stringify(rendered)
    /\ crashed = FALSE
    /\ settled = <<>>

SpecSaved == InitSaved /\ [][Next]_vars

---------------------------------------------------------------------------
(* Vocabulary of the properties.  lastOp names the handler or continuation *)
(* that ran last; a step of kind k is a step that sets lastOp to a new     *)
(* value whose op is k (Render leaves lastOp alone).                       *)

IsPrefix(s, t) == Len(s) <= Len(t) /\ SubSeq(t, 1, Len(s)) = s

IsSuffix(s, t) == Len(s) <= Len(t) /\ SubSeq(t, Len(t) - Len(s) + 1, Len(t)) = s

Last(s) == s[Len(s)]

StepOf(k) == lastOp' # lastOp /\ lastOp'.op = k

IssuedCall == CHOOSE c \in calls' \ calls : TRUE

SettledCall == CHOOSE c \in calls \ calls' : TRUE

AllMessages(cs) ==
    UNION {{cs[i].messages[j] : j \in 1..Len(cs[i].messages)} : i \in 1..Len(cs)}

---------------------------------------------------------------------------
(* C1: in every reachable state activeChat is null or the id of a session  *)
(* present in the session list (in the hook's value and in the list the    *)
(* last render showed).                                                    *)

C1_ActiveChatPresent ==
    activeChat = Null
    \/ (activeChat \in ChatIds(chats) /\ activeChat \in ChatIds(rendered))

(* A non-active session was deleted while a call of the active one is in   *)
(* flight, and the active id still names a session.                        *)
C1_Witness ==
    /\ lastOp = [op |-> "delete", arg |-> 1]
    /\ activeChat = 2
    /\ calls # {}
    /\ ChatIds(chats) = {2}

---------------------------------------------------------------------------
(* C2: messages are append-only: across every step, for every session      *)
(* present before and after it, the transcript before the step is a prefix *)
(* of the transcript after it.                                             *)

C2_AppendOnlyStep ==
    \A id \in ChatIds(chats) \cap ChatIds(chats') :
        IsPrefix(Find(chats, id).messages, Find(chats', id).messages)

C2_AppendOnly == [][C2_AppendOnlyStep]_vars

---------------------------------------------------------------------------
(* C3: a send of non-blank m to the active session s with transcript T     *)
(* leaves s with T followed by one user message m; when its answer call    *)
(* succeeds and nothing else touched s, s holds T, m, then one ai message  *)
(* with the answer; no ai message is appended by any other step.           *)

C3_SendStep ==
    StepOf("send") =>
        LET s == IssuedCall.activeChat
            T == Find(chats, s).messages
            after == Find(chats', s).messages
        IN /\ Has(chats, s) /\ Has(chats', s)
           /\ Len(after) = Len(T) + 1
           /\ IsPrefix(T, after)
           /\ Last(after).sender = "user"
           /\ Last(after).content = IssuedCall.message

C3_AnswerStep ==
    StepOf("sendOk") =>
        LET s == SettledCall.activeChat
        IN (Has(chats, s) /\ Find(chats, s).messages = SettledCall.chatHistory) =>
              LET after == Find(chats', s).messages
              IN /\ Len(after) = Len(SettledCall.chatHistory) + 1
                 /\ IsPrefix(SettledCall.chatHistory, after)
                 /\ Last(after).sender = "ai"
                 /\ Last(after).content \in Answers

C3_NoEarlyAi ==
    ~StepOf("sendOk") =>
        {m \in AllMessages(chats') : m.sender = "ai"}
            \subseteq {m \in AllMessages(chats) : m.sender = "ai"}

C3_OptimisticThenAnswer == [][C3_SendStep /\ C3_AnswerStep /\ C3_NoEarlyAi]_vars

---------------------------------------------------------------------------
(* C4: when the answer call of a send fails, no session changes (so no ai  *)
(* message is appended and the user message of the send stays where it     *)
(* is), an error notification is raised and no call is issued again.       *)

C4_FailStep ==
    StepOf("sendFail") =>
        LET c == SettledCall
        IN /\ chats' = chats
           /\ rendered' = rendered
           /\ toast'.status = "error"
           /\ toast'.title = "Error getting response"
           /\ calls' = calls \ {c}
           /\ callCount' = callCount
           /\ Last(c.chatHistory).sender = "user"
           /\ Last(c.chatHistory).content = c.message
           /\ Has(chats', c.activeChat) =>
                 IsPrefix(c.chatHistory, Find(chats', c.activeChat).messages)

C4_SendFailure == [][C4_FailStep]_vars

(* The only send of a session failed: its transcript ends with the user    *)
(* message and the error notification is up.                               *)
C4_Witness ==
    /\ lastOp.op = "sendFail"
    /\ calls = {}
    /\ toast = QueryErrorToast("Network Error")
    /\ \E i \in 1..Len(chats) :
          /\ Len(chats[i].messages) = 1
          /\ chats[i].messages[1].sender = "user"

---------------------------------------------------------------------------
(* C5: a successful upload of file f to an existing session s sets         *)
(* pdfData, sets the title to a label ending in f's name and appends one   *)
(* system message, in one step; earlier messages, id, createdAt and every  *)
(* other session are unchanged; no state shows only some of the effects.   *)

C5_UploadStep ==
    StepOf("uploadOk") =>
        LET c == SettledCall
        IN /\ Len(chats') = Len(chats)
           /\ \A i \in 1..Len(chats) :
                /\ chats'[i].id = chats[i].id
                /\ chats'[i].createdAt = chats[i].createdAt
                /\ chats[i].id # c.activeChat => chats'[i] = chats[i]
                /\ chats[i].id = c.activeChat =>
                      /\ chats'[i].pdfData \in Payloads
                      /\ chats'[i].title = PdfTitlePrefix \o c.file.name
                      /\ IsSuffix(c.file.name, chats'[i].title)
                      /\ Len(chats'[i].messages) = Len(chats[i].messages) + 1
                      /\ IsPrefix(chats[i].messages, chats'[i].messages)
                      /\ Last(chats'[i].messages).sender = "system"
                      /\ IsSuffix(c.file.name, Last(chats'[i].messages).content)

C5_AllOrNothing ==
    \A i \in 1..Len(chats) :
        LET hasDoc == chats[i].pdfData # Absent
        IN /\ hasDoc <=> IsPrefix(PdfTitlePrefix, chats[i].title)
           /\ hasDoc <=> \E j \in 1..Len(chats[i].messages) :
                            chats[i].messages[j].sender = "system"

C5_AttachDocument == []C5_AllOrNothing /\ [][C5_UploadStep]_vars

(* An upload to a session that already had a user message succeeded.       *)
C5_Witness ==
    /\ lastOp.op = "uploadOk"
    /\ \E i \in 1..Len(chats) :
          /\ chats[i].pdfData \in Payloads
          /\ Len(chats[i].messages) = 2
          /\ chats[i].messages[1].sender = "user"
          /\ chats[i].messages[2].sender = "system"

---------------------------------------------------------------------------
(* C6: a failed upload changes no session, neither when it is issued nor   *)
(* when it fails: pdfData, title and messages stay as they were, no system *)
(* message is appended, and only an error notification is produced.        *)

C6_UploadFailStep ==
    /\ StepOf("upload") => chats' = chats /\ rendered' = rendered
    /\ StepOf("uploadFail") =>
          /\ chats' = chats
          /\ rendered' = rendered
          /\ toast'.status = "error"
          /\ toast'.title = "Error"
          /\ toast'.description # ""
          /\ calls' = calls \ {SettledCall}
          /\ callCount' = callCount

C6_UploadFailure == [][C6_UploadFailStep]_vars

(* An upload failed with an error that carries no message: the session     *)
(* has no document and no system message, the fallback text is shown.      *)
C6_Witness ==
    /\ lastOp.op = "uploadFail"
    /\ toast = UploadErrorToast("")
    /\ chats # <<>>
    /\ \A i \in 1..Len(chats) : chats[i].pdfData = Absent
    /\ \A m \in AllMessages(chats) : m.sender # "system"

---------------------------------------------------------------------------
(* C7: handleDeleteChat(id) removes exactly the session with that id and   *)
(* keeps the others unchanged and in order; activeChat becomes null when   *)
(* id was active and is unchanged otherwise; when id is not in the list    *)
(* the list and activeChat are unchanged.                                  *)

C7_DeleteStep ==
    StepOf("delete") =>
        LET id == lastOp'.arg
            Keep(c) == c.id # id
        IN /\ chats' = SelectSeq(chats, Keep)
           /\ activeChat = id => activeChat' = Null
           /\ activeChat # id => activeChat' = activeChat
           /\ id \notin ChatIds(chats) =>
                 chats' = chats /\ activeChat' = activeChat

C7_Delete == [][C7_DeleteStep]_vars

(* Delete was called with an id that names no session (here the id of a    *)
(* message) while a session is active.                                     *)
C7_Witness ==
    /\ lastOp.op = "delete"
    /\ activeChat # Null
    /\ \E m \in AllMessages(chats) : m.id = lastOp.arg

---------------------------------------------------------------------------
(* C8: when the session a send or an upload targets was deleted while the  *)
(* call was in flight, the resolution of the call, success or failure,     *)
(* changes no session and does not bring the session back.                 *)

C8_ResolutionStep ==
    (StepOf("sendOk") \/ StepOf("sendFail")
        \/ StepOf("uploadOk") \/ StepOf("uploadFail")) =>
        (SettledCall.activeChat \notin ChatIds(chats) =>
            chats' = chats /\ rendered' = rendered)

C8_DeletedTarget == [][C8_ResolutionStep]_vars

(* An answer arrived for a deleted session: its ai message, which would    *)
(* carry the newest id, is in no remaining session.                        *)
C8_Witness ==
    /\ lastOp.op = "sendOk"
    /\ chats # <<>>
    /\ \A i \in 1..Len(chats) : chats[i].id # uuidCount
    /\ \A m \in AllMessages(chats) : m.id # uuidCount

---------------------------------------------------------------------------
(* C9: a send issues exactly one answer call; its arguments are the        *)
(* message, the session's transcript up to and including the user message  *)
(* just appended, and the session's pdfData, which is absent when the      *)
(* session had no document.                                                *)

C9_SendStep ==
    StepOf("send") =>
        LET c == IssuedCall
            s == activeChat
        IN /\ calls \subseteq calls'
           /\ Cardinality(calls' \ calls) = 1
           /\ c.kind = "queryLLM"
           /\ c.activeChat = s
           /\ c.chatHistory = Find(chats', s).messages
           /\ Last(c.chatHistory).sender = "user"
           /\ Last(c.chatHistory).content = c.message
           /\ c.context = Find(chats', s).pdfData
           /\ Find(chats, s).pdfData = Absent => c.context = Absent

C9_AnswerCall == [][C9_SendStep]_vars

(* The second send of a session without a document: the call carries the   *)
(* three messages of the transcript and no document.                       *)
C9_Witness ==
    /\ lastOp.op = "send"
    /\ \E c \in calls :
          /\ c.n = lastOp.arg
          /\ c.context = Absent
          /\ Len(c.chatHistory) = 3
          /\ c.chatHistory[2].sender = "ai"

---------------------------------------------------------------------------
(* C10: a session's title starts as 'New Chat'; once the first user        *)
(* message of a session without a document has been answered, the title    *)
(* begins with the first 30 characters of that message; once a document is *)
(* attached, the title ends with the file name.                            *)

C10_TitleOf(chat) ==
    /\ (chat.messages = <<>> /\ chat.pdfData = Absent) =>
          chat.title = NewChatTitle
    /\ (/\ chat.pdfData = Absent
        /\ Len(chat.messages) >= 2
        /\ chat.messages[1].sender = "user"
        /\ chat.messages[2].sender = "ai") =>
          IsPrefix(Slice(chat.messages[1].content, TitleLen), chat.title)
    /\ chat.pdfData # Absent =>
          \E f \in Files : chat.title = PdfTitlePrefix \o f.name

C10_Title == \A i \in 1..Len(chats) : C10_TitleOf(chats[i])

---------------------------------------------------------------------------
(* C11: every change of the session list is in the 'chatHistory' entry     *)
(* before the next user action is handled, the entry always holds the      *)
(* latest list, and a page load that reads the entry back gets the list    *)
(* the application last held, with the order of sessions and messages and  *)
(* every field.                                                            *)

UserStep ==
    \/ StepOf("create") \/ StepOf("delete") \/ StepOf("select")
    \/ StepOf("send") \/ StepOf("sendIgnored")
    \/ StepOf("upload") \/ StepOf("uploadIgnored")

C11_RoundTrip == Parse(Stringify(chats)) = chats

C11_WrittenAtCommit == ~crashed => storage = Stringify(rendered)

C11_WrittenBeforeAction == UserStep => storage = Stringify(chats)

C11_ReadBack ==
    (StepOf("startup") /\ lastOp'.arg = 0 /\ ~crashed) => chats' = chats

C11_Persistence ==
    /\ [](C11_RoundTrip /\ C11_WrittenAtCommit)
    /\ [][C11_WrittenBeforeAction /\ C11_ReadBack]_vars

---------------------------------------------------------------------------
(* C12: a page load never fails: a missing entry and an entry that cannot  *)
(* be parsed both give an empty session list, and the application is in    *)
(* its initial state (mounted, no active session, not loading).            *)

C12_LoadNeverFails ==
    lastOp.op = "startup" =>
        /\ ~crashed
        /\ lastOp.arg \in {1, 2} => chats = <<>>
        /\ activeChat = Null
        /\ isLoading = FALSE

---------------------------------------------------------------------------
(* C13: createNewChat puts exactly one new session (fresh id, no messages, *)
(* no document, placeholder title) at the front of the list and makes it   *)
(* active; every session that was in the list is still there, unchanged    *)
(* and in the same order, behind it.                                       *)

C13_CreateStep ==
    StepOf("create") =>
        /\ Len(chats') = Len(chats) + 1
        /\ Tail(chats') = chats
        /\ Head(chats').id \notin ChatIds(chats)
        /\ \A m \in AllMessages(chats) : Head(chats').id # m.id
        /\ Head(chats').messages = <<>>
        /\ Head(chats').pdfData = Absent
        /\ Head(chats').title = NewChatTitle
        /\ activeChat' = Head(chats').id

C13_Create == [][C13_CreateStep]_vars

---------------------------------------------------------------------------
(* C14: when every call in flight is eventually settled, the view always   *)
(* returns to idle: a loading view eventually stops loading, isLoading is  *)
(* false whenever no call is in flight, and a failed call resets isLoading *)
(* inside its handler without taking the application down.                 *)

C14_IdleWhenNoCall == calls = {} => isLoading = FALSE

C14_FailureStep ==
    (StepOf("sendFail") \/ StepOf("uploadFail")) =>
        isLoading' = FALSE /\ crashed' = FALSE

C14_ReturnsToIdle ==
    /\ []C14_IdleWhenNoCall
    /\ [][C14_FailureStep]_vars
    /\ (isLoading = TRUE) ~> (isLoading = FALSE)

(* The last call in flight, an upload issued while loading, has failed.    *)
C14_Witness ==
    /\ lastOp.op = "uploadFail"
    /\ calls = {}
    /\ isLoading = FALSE
    /\ callCount = 2

---------------------------------------------------------------------------
(* C15: the view is idle only when no call is in flight: whenever a call   *)
(* issued by handleFileUpload or handleSendMessage has not been settled,   *)
(* isLoading is true, also when calls overlap.                             *)

C15_LoadingWhileInFlight == calls # {} => isLoading = TRUE

---------------------------------------------------------------------------
(* C16: for two overlapping sends to one session (the second issued before *)
(* the first was answered) that both succeed, the session's transcript     *)
(* holds the two user messages in issue order and, after them, the two ai  *)
(* replies in the order in which the calls resolved.                       *)

MessageIds(chat) == [k \in 1..Len(chat.messages) |-> chat.messages[k].id]

Restrict(ids, S) == SelectSeq(ids, LAMBDA x : x \in S)

SettledOf(kind, id) ==
    SelectSeq(settled, LAMBDA r : r.kind = kind /\ r.target = id)

C16_Overlap(first, second) == second.askId < first.id

C16_OverlappingSends ==
    \A i \in 1..Len(chats) :
        LET answers == SettledOf("queryLLM", chats[i].id)
        IN \A a \in 1..Len(answers), b \in 1..Len(answers) :
              (a < b /\ C16_Overlap(answers[a], answers[b])) =>
                  LET first == answers[a]
                      second == answers[b]
                      issued == IF first.askId < second.askId
                                THEN <<first.askId, second.askId>>
                                ELSE <<second.askId, first.askId>>
                  IN Restrict(MessageIds(chats[i]),
                              {first.askId, second.askId, first.id, second.id})
                        = issued \o <<first.id, second.id>>

---------------------------------------------------------------------------
(* C17: after two successful uploads to one session, sequential or         *)
(* overlapping, the session's pdfData and title are those of the upload    *)
(* that resolved last, and its transcript holds one system message per     *)
(* successful upload, in resolution order.                                 *)

SystemMessageIds(chat) ==
    LET system == SelectSeq(chat.messages, LAMBDA m : m.sender = "system")
    IN [k \in 1..Len(system) |-> system[k].id]

C17_LaterUploadReplaces ==
    \A i \in 1..Len(chats) :
        LET uploads == SettledOf("processPDF", chats[i].id)
        IN Len(uploads) >= 2 =>
              /\ chats[i].pdfData = Last(uploads).pdfData
              /\ chats[i].title = Last(uploads).title
              /\ SystemMessageIds(chats[i])
                    = [k \in 1..Len(uploads) |-> uploads[k].id]

---------------------------------------------------------------------------
(* C18: the result of a call is applied to the session that was active     *)
(* when the call was issued, not to the one active when it resolves: the   *)
(* issuing session, if it still exists, gains the new message, and every   *)
(* other session, the now active one included, is left unchanged.          *)

C18_ResultStep ==
    (StepOf("sendOk") \/ StepOf("uploadOk")) =>
        LET c == SettledCall
        IN /\ activeChat' = activeChat
           /\ Len(chats') = Len(chats)
           /\ \A i \in 1..Len(chats) :
                 IF chats[i].id = c.activeChat
                 THEN /\ chats'[i].id = c.activeChat
                      /\ chats'[i].messages # <<>>
                      /\ IsPrefix(chats[i].messages, chats'[i].messages)
                      /\ Len(chats'[i].messages) = Len(chats[i].messages) + 1
                      /\ Last(chats'[i].messages).id = uuidCount'
                      /\ Last(chats'[i].messages).sender =
                            IF c.kind = "queryLLM" THEN "ai" ELSE "system"
                 ELSE chats'[i] = chats[i]

C18_IssuingSession == [][C18_ResultStep]_vars

(* An answer arrived after another session had become active: the issuing  *)
(* session holds the reply, the active one holds no message.               *)
C18_Witness ==
    /\ lastOp.op = "sendOk"
    /\ settled # <<>>
    /\ activeChat # Null
    /\ Last(settled).target # activeChat
    /\ Has(chats, activeChat)
    /\ Find(chats, activeChat).messages = <<>>
    /\ Has(chats, Last(settled).target)
    /\ Last(Find(chats, Last(settled).target).messages).id = Last(settled).id

---------------------------------------------------------------------------
(* C19: a send whose message is empty or only whitespace, and a send or an *)
(* upload with no active session, have no effect: chats, activeChat and    *)
(* isLoading are unchanged, no message is appended and no call is issued.  *)
(* So a call is only ever issued for an active session, and an answer call *)
(* only for a message that is not blank.                                   *)

C19_IgnoredStep ==
    (StepOf("sendIgnored") \/ StepOf("uploadIgnored")) =>
        UNCHANGED <<chats, rendered, activeChat, isLoading, calls, callCount,
                    uuidCount, storage, toast>>

C19_EffectiveStep ==
    (StepOf("send") \/ StepOf("upload")) =>
        /\ activeChat # Null
        /\ StepOf("send") => Trim(IssuedCall.message) # <<>>

C19_NoBlankMessage ==
    \A m \in AllMessages(chats) : m.sender = "user" => Trim(m.content) # <<>>

C19_IgnoredRequests ==
    /\ [][C19_IgnoredStep]_vars
    /\ [][C19_EffectiveStep]_vars
    /\ []C19_NoBlankMessage

(* A blank message was sent to an active session that holds an answered    *)
(* message: nothing was added and no call is in flight.                    *)
C19_Witness ==
    /\ lastOp.op = "sendIgnored"
    /\ activeChat # Null
    /\ Has(chats, activeChat)
    /\ Len(Find(chats, activeChat).messages) = 2
    /\ calls = {}
    /\ isLoading = FALSE

===========================================================================
